---------------------------- MODULE Spec2Model ----------------------------
(***************************************************************************)
(* A model of the wasi-test harness.                                       *)
(*                                                                         *)
(*   compat.py  main(): the matrix orchestrator.  It globs the built       *)
(*              artifacts, loads each artifact's record, and runs the      *)
(*              artifact through the five runtime adapters in turn.        *)
(*   build.py   extract_prelude(): reads the annotation header of a        *)
(*              source file.                                               *)
(*                                                                         *)
(* Strings the code concatenates or compares character by character are    *)
(* sequences of pieces; an optional value (a key of a dict that may be     *)
(* absent, dict.get returning None) is a sequence of length 0 or 1.        *)
(***************************************************************************)
EXTENDS Integers, Sequences, FiniteSets, TLC

VARIABLES
    inputs,     \* compat.main: the sorted list of discovered artifacts
    disk,       \* the record files glob finds for each artifact, in glob order
    i,          \* compat.main: position of `for filepath in inputs`
    j,          \* compat.main: position of `for name in tests`
    pc,         \* compat.main: where control is
    matches,    \* compat.main: result of the record glob of the current case
    config,     \* compat.main: the record loaded for the current case
    workdir,    \* files of the current case's temporary directory
    scratch,    \* the directory ./scratch of the harness's own cwd
    cmd,        \* the command line of the external process last built
    elapsed,    \* time the running external process has been running
    report,     \* the cells written to stdout so far, in order
    status,     \* the status text written for the last cell
    err,        \* the exception caught for the last cell ("None" if none)
    src,        \* build.extract_prelude: the lines of the source file
    pos,        \* build.extract_prelude: number of lines read
    prelude,    \* build.extract_prelude: the accumulated text
    bpc         \* build.extract_prelude: where control is

vars == <<inputs, disk, i, j, pc, matches, config, workdir, scratch, cmd,
          elapsed, report, status, err, src, pos, prelude, bpc>>

compatVars == <<inputs, disk, i, j, pc, matches, config, workdir, scratch,
                cmd, elapsed, report, status, err>>

buildVars == <<src, pos, prelude, bpc>>

---------------------------------------------------------------------------
(* Bounds *)

\* At most this many artifacts are discovered by the glob.
MaxArtifacts == 2

\* Time stops being counted once a process has run this long.
MaxClock == 2

\* Longest source file, in lines.
MaxLines == 3

---------------------------------------------------------------------------
(* Helpers *)

Range(s) == {s[k] : k \in 1..Len(s)}

None == <<>>

Some(v) == <<v>>

\* dict.get(key, default)
get(d, key, default) == IF d[key] = None THEN default ELSE d[key][1]

---------------------------------------------------------------------------
(* Artifact paths and their order *)

\* Code points of the characters paths are made of.
Ord == [c \in {"B", "a", "b", "/", "x", "y", ".wasm", ".so", ".json"} |->
          CASE c = "B" -> 66
            [] c = "a" -> 97
            [] c = "b" -> 98
            [] c = "/" -> 47
            [] c = "x" -> 120
            [] c = "y" -> 121
            [] OTHER -> 46]

\* Paths the artifact glob may discover (relative to target/wasm32-wasi/).
Paths == { <<"a", "b", "/", "x", ".wasm">>,
           <<"a", "/", "y", ".wasm">>,
           <<"B", "/", "x", ".wasm">> }

\* Python's str.__lt__: s < t, code point by code point, a proper prefix first.
LexLess(s, t) ==
    \E k \in 1..Len(t) :
        /\ \A m \in 1..(k - 1) : m <= Len(s) /\ s[m] = t[m]
        /\ \/ k = Len(s) + 1
           \/ k <= Len(s) /\ Ord[s[k]] < Ord[t[k]]

RECURSIVE Insert(_, _)
Insert(x, s) ==
    IF s = <<>> THEN <<x>>
    ELSE IF LexLess(x, Head(s)) THEN <<x>> \o s
    ELSE <<Head(s)>> \o Insert(x, Tail(s))

RECURSIVE sortedFrom(_, _)
sortedFrom(s, acc) ==
    IF s = <<>> THEN acc ELSE sortedFrom(Tail(s), Insert(Head(s), acc))

\* A harness that processes the artifacts in the order glob returns them.
unsorted(s) == s

\* sorted(glob.glob(...))
sorted(s) == sortedFrom(s, <<>>)

\* What glob.glob may return: any listing, in any order, without repeats.
GlobResults ==
    {g \in UNION {[1..n -> Paths] : n \in 0..MaxArtifacts} :
        \A p, q \in 1..Len(g) : p # q => g[p] # g[q]}

\* os.path.abspath(filepath)
abspath(p) == <<"/cwd/">> \o p

\* os.path.splitext(filepath)[0] + '.so'
soPath(p) == SubSeq(p, 1, Len(p) - 1) \o <<".so">>

---------------------------------------------------------------------------
(* Records *)

Keys == {"stdin", "env", "args", "preopens", "stdout", "stderr", "exitCode",
         "timeout"}

EmptyRecord == [k \in Keys |-> None]

\* The record files a build may have left on disk.
RecordFiles ==
    [r \in {"r1", "r2"} |->
        IF r = "r1" THEN EmptyRecord
        ELSE [EmptyRecord EXCEPT
                !["env"] = Some(<< <<"K", "V">> >>),
                !["args"] = Some(<<"a", "b">>),
                !["preopens"] = Some(<< <<"/fixtures", "fixtures">>,
                                        <<"/scratch", "scratch">> >>),
                !["stdout"] = Some("a\n"),
                !["timeout"] = Some(1)]]

\* What the record glob may find for one artifact, in glob order.
Candidates == { <<>>, <<"r1">>, <<"r2">>, <<"r2", "r1">> }

load_config(file) == RecordFiles[file]

DefaultTimeout == 5

Timeout(c) == get(c, "timeout", DefaultTimeout)

\* What a finished process may have produced.
Results ==
    { [stdout |-> "", stderr |-> "", returncode |-> 0],
      [stdout |-> "a\n", stderr |-> "", returncode |-> 0],
      [stdout |-> "", stderr |-> "e", returncode |-> 0],
      [stdout |-> "", stderr |-> "", returncode |-> 1] }

\* assert_result: TRUE when no assertion fails.
assert_result(actual, expected) ==
    /\ actual.stdout = get(expected, "stdout", "")
    /\ actual.stderr = get(expected, "stderr", "")
    /\ actual.returncode = get(expected, "exitCode", 0)

\* ensure_empty_dir(path)
ensure_empty_dir(dir) == Some({})

---------------------------------------------------------------------------
(* Command lines.  A command line is a sequence of arguments, and an       *)
(* argument is a sequence of string pieces.                                *)

RECURSIVE Concat(_)
Concat(ss) == IF ss = <<>> THEN <<>> ELSE Head(ss) \o Concat(Tail(ss))

\* str(n) for the numbers records hold
IntStr(n) == CASE n = 0 -> "0" [] n = 1 -> "1" [] OTHER -> "5"

\* The text json.dumps writes for the value of one key.
dumpsValue(k, v) ==
    CASE k \in {"env", "preopens"} ->
            Concat([n \in 1..Len(v) |-> <<v[n][1], ":", v[n][2], ",">>])
      [] k = "args" -> Concat([n \in 1..Len(v) |-> <<v[n], ",">>])
      [] k \in {"exitCode", "timeout"} -> <<IntStr(v)>>
      [] OTHER -> <<v>>

KeyOrder == <<"args", "env", "exitCode", "preopens", "stderr", "stdin",
              "stdout", "timeout">>

\* json.dumps(config): one argument holding every key the dict has.
dumps(c) ==
    <<"{">> \o
    Concat([n \in 1..Len(KeyOrder) |->
              IF c[KeyOrder[n]] = None THEN <<>>
              ELSE <<KeyOrder[n], "=">> \o dumpsValue(KeyOrder[n], c[KeyOrder[n]][1])])
    \o <<"}">>

\* `if config.get(key) == None: config[key] = value` of the two glue adapters
setdefault(c, key, value) ==
    IF c[key] = None THEN [c EXCEPT ![key] = Some(value)] ELSE c

\* The record as test_deno and test_node leave it (lines 63-67, 104-108).
glueConfig(c) == setdefault(setdefault(c, "env", <<>>), "args", <<>>)

\* `for key in d: cmd.append(flag); cmd.append(key + sep + d[key])`
mapFlags(flag, sep, d) ==
    IF d = None THEN <<>>
    ELSE Concat([n \in 1..Len(d[1]) |->
                   << <<flag>>, <<d[1][n][1], sep, d[1][n][2]>> >>])

\* `for arg in args: cmd.append(arg)`
argList(c) ==
    IF c["args"] = None THEN <<>>
    ELSE [n \in 1..Len(c["args"][1]) |-> <<c["args"][1][n]>>]

\* `if args != None: cmd.append('--')` and the args
dashArgs(c) ==
    IF c["args"] = None THEN <<>> ELSE << <<"--">> >> \o argList(c)

test_deno(filepath, c) ==
    << <<"deno">>, <<"run">>, <<"--quiet">>, <<"--allow-all">>,
       <<"--unstable">>, <<"/cwd/", ".deno.ts">>, dumps(c), filepath >>

test_node(filepath, c) ==
    << <<"node">>, <<"--no-warnings">>,
       <<"--experimental-wasi-unstable-preview1">>,
       <<"--experimental-wasm-bigint">>, <<"/cwd/", ".node.js">>, dumps(c),
       filepath >>

test_wasmer(filepath, c) ==
    << <<"wasmer">>, <<"run">>, filepath >>
    \o mapFlags("--env", "=", c["env"])
    \o mapFlags("--mapdir", ":", c["preopens"])
    \o dashArgs(c)

\* A wasmtime adapter that puts the guest's args before the guest program.
test_wasmtime_argsFirst(filepath, c) ==
    << <<"wasmtime">>, <<"run">> >>
    \o mapFlags("--env", "=", c["env"])
    \o mapFlags("--mapdir", "::", c["preopens"])
    \o dashArgs(c)
    \o << filepath >>

test_wasmtime(filepath, c) ==
    << <<"wasmtime">>, <<"run">> >>
    \o mapFlags("--env", "=", c["env"])
    \o mapFlags("--mapdir", "::", c["preopens"])
    \o << filepath >>
    \o dashArgs(c)

\* The ahead-of-time compilation command of test_wasmedge.
wasmedgec_cmd(filepath) ==
    << <<"wasmedgec">>, filepath, soPath(filepath) >>

test_wasmedge(filepath, c) ==
    << <<"wasmedge">> >>
    \o mapFlags("--env", "=", c["env"])
    \o mapFlags("--dir", ":", c["preopens"])
    \o << soPath(filepath) >>
    \o argList(c)

\* The tests dict, in insertion order.
tests == <<"deno", "node", "wasmer", "wasmtime", "wasmedge">>

\* The adapters that route through a generated glue program.
GlueAdapters == {"deno", "node"}

\* The command line tests[name] hands to test().
runCmd(name, filepath, c) ==
    CASE name = "deno" -> test_deno(filepath, c)
      [] name = "node" -> test_node(filepath, c)
      [] name = "wasmer" -> test_wasmer(filepath, c)
      [] name = "wasmtime" -> test_wasmtime(filepath, c)
      [] OTHER -> test_wasmedge(filepath, c)

---------------------------------------------------------------------------
(* compat.py main() *)

Init ==
    /\ \E g \in GlobResults :
         /\ inputs = sorted(g)
         /\ disk \in [Range(g) -> Candidates]
         /\ pc = IF g = <<>> THEN "done" ELSE "resolve"
    /\ i = 1
    /\ j = 1
    /\ matches = <<>>
    /\ config = EmptyRecord
    /\ workdir = {}
    /\ scratch \in {None, Some({"old"})}
    /\ cmd = <<>>
    /\ elapsed = 0
    /\ report = <<>>
    /\ status = ""
    /\ err = "None"
    /\ src = <<>>
    /\ pos = 0
    /\ prelude = <<>>
    /\ bpc = "idle"

filepath == inputs[i]

name == tests[j]

\* Lines 217-222: glob the record, load the first match, make the workspace.
\* matches[0] of an empty list raises IndexError, which nothing catches.
Resolve ==
    /\ pc = "resolve"
    /\ matches' = disk[filepath]
    /\ IF matches' = <<>>
       THEN /\ pc' = "crashed"
            /\ UNCHANGED <<config, workdir, j>>
       ELSE /\ config' = load_config(matches'[1])
            /\ workdir' = {<<"fixtures">>}
            /\ j' = 1
            /\ pc' = "cell"
    /\ UNCHANGED <<inputs, disk, i, scratch, cmd, elapsed, report, status, err>>
    /\ UNCHANGED buildVars

\* Lines 230-236 up to the first external process of the adapter:
\* ensure_empty_dir('scratch'), then the adapter builds its command line.
BeginCell ==
    /\ pc = "cell"
    /\ scratch' = ensure_empty_dir(scratch)
    /\ IF name = "wasmedge"
       THEN /\ cmd' = wasmedgec_cmd(abspath(filepath))
            /\ pc' = "aot"
            /\ UNCHANGED config
       ELSE /\ config' = IF name \in GlueAdapters THEN glueConfig(config)
                         ELSE config
            /\ cmd' = runCmd(name, abspath(filepath), config')
            /\ pc' = "spawn"
    /\ UNCHANGED <<inputs, disk, i, j, matches, workdir, elapsed, report,
                   status, err>>
    /\ UNCHANGED buildVars

\* Lines 237-241 and the two loop heads: write the status of the cell and
\* go on to the next adapter, the next artifact or the end of main().
Record(e) ==
    /\ err' = e
    /\ status' = IF e = "None" THEN "ok" ELSE "FAILED"
    /\ report' = Append(report, [artifact |-> filepath, name |-> name])
    /\ IF j < Len(tests)
       THEN /\ j' = j + 1
            /\ i' = i
            /\ pc' = "cell"
       ELSE /\ j' = 1
            /\ i' = i + 1
            /\ pc' = IF i < Len(inputs) THEN "resolve" ELSE "done"

\* subprocess.check_call(wasmedgec_cmd): wasmedgec is not installed.
AotSpawnFail ==
    /\ pc = "aot"
    /\ Record("FileNotFoundError")
    /\ UNCHANGED <<inputs, disk, matches, config, workdir, scratch, cmd,
                   elapsed>>
    /\ UNCHANGED buildVars

\* subprocess.check_call(wasmedgec_cmd): the compiler starts.
AotSpawn ==
    /\ pc = "aot"
    /\ pc' = "compile"
    /\ elapsed' = 0
    /\ UNCHANGED <<inputs, disk, i, j, matches, config, workdir, scratch,
                   cmd, report, status, err>>
    /\ UNCHANGED buildVars

\* Time passes while check_call waits; check_call has no timeout.
CompileTick ==
    /\ pc = "compile"
    /\ elapsed < MaxClock
    /\ elapsed' = elapsed + 1
    /\ UNCHANGED <<inputs, disk, i, j, pc, matches, config, workdir,
                   scratch, cmd, report, status, err>>
    /\ UNCHANGED buildVars

\* The compiler exits with status 0; lines 176-198 build the run command.
CompileOk ==
    /\ pc = "compile"
    /\ cmd' = runCmd(name, abspath(filepath), config)
    /\ pc' = "spawn"
    /\ UNCHANGED <<inputs, disk, i, j, matches, config, workdir, scratch,
                   elapsed, report, status, err>>
    /\ UNCHANGED buildVars

\* The compiler exits with a nonzero status: check_call raises.
CompileFail ==
    /\ pc = "compile"
    /\ Record("CalledProcessError")
    /\ UNCHANGED <<inputs, disk, matches, config, workdir, scratch, cmd,
                   elapsed>>
    /\ UNCHANGED buildVars

\* test(): subprocess.run cannot start the runtime.
SpawnFail ==
    /\ pc = "spawn"
    /\ Record("FileNotFoundError")
    /\ UNCHANGED <<inputs, disk, matches, config, workdir, scratch, cmd,
                   elapsed>>
    /\ UNCHANGED buildVars

\* test(): subprocess.run starts the runtime in cwd=workdir.
Spawn ==
    /\ pc = "spawn"
    /\ pc' = "run"
    /\ elapsed' = 0
    /\ UNCHANGED <<inputs, disk, i, j, matches, config, workdir, scratch,
                   cmd, report, status, err>>
    /\ UNCHANGED buildVars

\* Time passes while subprocess.run waits, up to its timeout.
RunTick ==
    /\ pc = "run"
    /\ elapsed < Timeout(config)
    /\ elapsed' = elapsed + 1
    /\ UNCHANGED <<inputs, disk, i, j, pc, matches, config, workdir,
                   scratch, cmd, report, status, err>>
    /\ UNCHANGED buildVars

\* subprocess.run: the timeout expires, the process is killed.
RunExpire ==
    /\ pc = "run"
    /\ elapsed = Timeout(config)
    /\ Record("TimeoutExpired")
    /\ UNCHANGED <<inputs, disk, matches, config, workdir, scratch, cmd,
                   elapsed>>
    /\ UNCHANGED buildVars

\* Host directories of the workspace the guest can write to: the preopens
\* that exist, resolved against cwd=workdir.
Writable(c) ==
    IF c["preopens"] = None THEN {}
    ELSE {d \in workdir : \E n \in 1..Len(c["preopens"][1]) :
                              <<c["preopens"][1][n][2]>> = d}

\* The process exits in time: the guest may have left a file in a
\* preopened directory; assert_result grades the result.
RunExit ==
    /\ pc = "run"
    /\ elapsed < Timeout(config)
    /\ \E r \in Results, w \in SUBSET Writable(config) :
         /\ workdir' = workdir \cup {d \o <<"leak">> : d \in w}
         /\ Record(IF assert_result(r, config) THEN "None"
                   ELSE "AssertionError")
    /\ UNCHANGED <<inputs, disk, matches, config, scratch, cmd, elapsed>>
    /\ UNCHANGED buildVars

Next ==
    \/ Resolve
    \/ BeginCell
    \/ AotSpawnFail
    \/ AotSpawn
    \/ CompileTick
    \/ CompileOk
    \/ CompileFail
    \/ SpawnFail
    \/ Spawn
    \/ RunTick
    \/ RunExpire
    \/ RunExit

Spec == Init /\ [][Next]_vars

---------------------------------------------------------------------------
(* build.py extract_prelude().  A line is the sequence of its pieces, the  *)
(* comment marker "//" being one piece and the newline another.            *)

\* The lines source files are made of.
Lines == { <<"\n">>,
           <<"//", "{}", "\n">>,
           <<"//", "{", "//", "}", "\n">>,
           <<"x", "\n">>,
           <<"x", "//", "c", "\n">> }

SourceFiles == UNION {[1..n -> Lines] : n \in 0..MaxLines}

\* line.split('//')
RECURSIVE split(_)
split(line) ==
    IF line = <<>> THEN << <<>> >>
    ELSE LET rest == split(Tail(line))
         IN  IF Head(line) = "//" THEN << <<>> >> \o rest
             ELSE << <<Head(line)>> \o Head(rest) >> \o Tail(rest)

InitBuild ==
    /\ src \in SourceFiles
    /\ pos = 0
    /\ prelude = <<>>
    /\ bpc = "loop"
    /\ inputs = <<>>
    /\ disk = <<>>
    /\ i = 1
    /\ j = 1
    /\ pc = "done"
    /\ matches = <<>>
    /\ config = EmptyRecord
    /\ workdir = {}
    /\ scratch = None
    /\ cmd = <<>>
    /\ elapsed = 0
    /\ report = <<>>
    /\ status = ""
    /\ err = "None"

\* `for line in f` is exhausted: line 23 returns what was accumulated.
ReadEof ==
    /\ bpc = "loop"
    /\ pos = Len(src)
    /\ bpc' = "returned"
    /\ UNCHANGED <<src, pos, prelude>>
    /\ UNCHANGED compatVars

\* Lines 18-19: the line is '\n'; break, then return.
ReadBlank ==
    /\ bpc = "loop"
    /\ pos < Len(src)
    /\ src[pos + 1] = <<"\n">>
    /\ pos' = pos + 1
    /\ bpc' = "returned"
    /\ UNCHANGED <<src, prelude>>
    /\ UNCHANGED compatVars

\* Line 21: prelude += line.split('//')[1]
ReadComment ==
    /\ bpc = "loop"
    /\ pos < Len(src)
    /\ src[pos + 1] # <<"\n">>
    /\ Len(split(src[pos + 1])) >= 2
    /\ pos' = pos + 1
    /\ prelude' = prelude \o split(src[pos + 1])[2]
    /\ UNCHANGED <<src, bpc>>
    /\ UNCHANGED compatVars

\* Line 21 on a line without the marker: [1] raises IndexError.
ReadUnmarked ==
    /\ bpc = "loop"
    /\ pos < Len(src)
    /\ src[pos + 1] # <<"\n">>
    /\ Len(split(src[pos + 1])) < 2
    /\ pos' = pos + 1
    /\ bpc' = "IndexError"
    /\ UNCHANGED <<src, prelude>>
    /\ UNCHANGED compatVars

NextBuild ==
    \/ ReadEof
    \/ ReadBlank
    \/ ReadComment
    \/ ReadUnmarked

SpecBuild == InitBuild /\ [][NextBuild]_vars

---------------------------------------------------------------------------
(* Properties *)

\* main() has returned or died.
RunEnded == pc \in {"done", "crashed"}

\* A case is in progress: its record was loaded.
InCase == pc \in {"cell", "aot", "compile", "spawn", "run"}

\* An adapter has been called for the current cell and has not returned.
InCell == pc \in {"aot", "compile", "spawn", "run"}

Cell(a, n) == [artifact |-> a, name |-> n]

\* Exactly one outcome was written for every adapter of artifact a.
HasRow(a) ==
    \A n \in Range(tests) :
        Cardinality({k \in 1..Len(report) : report[k] = Cell(a, n)}) = 1

\* C1: when the run is over, a failure to resolve one artifact (zero or
\* several record files) has cost no other artifact its cells: every
\* artifact with exactly one record file has one cell per adapter.
C1_OtherArtifactsKeepTheirRows ==
    RunEnded =>
        \A k, l \in 1..Len(inputs) :
            (k # l /\ Len(disk[inputs[k]]) # 1 /\ Len(disk[inputs[l]]) = 1)
                => HasRow(inputs[l])

\* C2: a record is loaded for a case only when the record glob found
\* exactly one file; with several candidates none is picked.
C2_LoadedOnlyWhenUnique == InCase => Len(matches) = 1

\* C3: when the run is over, every artifact whose record can be loaded has
\* exactly one recorded outcome per adapter, whatever the adapters raised.
C3_EveryLoadableArtifactHasItsRow ==
    RunEnded => \A a \in Range(inputs) : disk[a] # <<>> => HasRow(a)

\* Every exception an adapter raises is caught by main(): the cell is
\* written as FAILED and control goes on to the next cell, the next
\* artifact or the end of main().
AdapterExceptionsAreCaught ==
    [][(InCell /\ err' # "None" /\ report' # report)
          => /\ report' = Append(report, Cell(filepath, name))
             /\ status' = "FAILED"
             /\ pc' \in {"cell", "resolve", "done"}]_vars

\* The outcome the grading contract gives a cell, from what the adapter
\* raised.
Outcome(e) ==
    CASE e = "None" -> "Pass"
      [] e \in {"AssertionError", "TimeoutExpired"} -> "Fail"
      [] OTHER -> "Error"

\* C4: cells of different outcomes (Pass, Fail, Error) are written with
\* different statuses: when a cell is written whose outcome differs from
\* that of the cell before it, so does its status.
C4_OutcomesAreDistinguished ==
    [][(report # <<>> /\ Len(report') > Len(report)
            /\ Outcome(err') # Outcome(err))
          => status' # status]_vars

\* C5: no external process an adapter started, the ahead-of-time compiler
\* included, is still running after the record's timeout.
C5_NoProcessOutlivesTheDeadline ==
    pc \in {"compile", "run"} => elapsed <= Timeout(config)

\* C6: when an adapter starts, the directory scratch of the case's
\* workspace (where the adapter executes) exists and is empty.
C6_WorkspaceScratchIsEmpty ==
    pc \in {"aot", "spawn"} =>
        /\ <<"scratch">> \in workdir
        /\ \A f \in workdir : f[1] = "scratch" => f = <<"scratch">>

\* C7: once loaded, the record of a case is never changed: every step
\* other than the loading of a record leaves it as it is.
C7_RecordIsReadOnly == [][pc # "resolve" => config' = config]_vars

\* C8: extract_prelude returns only after it has read a blank line.
C8_ReturnsOnlyAtSentinel ==
    bpc = "returned" => (pos >= 1 /\ src[pos] = <<"\n">>)

\* The directly invoked runtimes.
NativeAdapters == {"wasmer", "wasmtime", "wasmedge"}

\* The args of a record, one command-line argument each.
RecordArgs(c) ==
    [n \in 1..Len(get(c, "args", <<>>)) |-> <<get(c, "args", <<>>)[n]>>]

\* Command line c names prog, holds the args after it in their order (they
\* end the command line) and none of them at or before it.
ArgsFollow(c, prog, args) ==
    \E p \in 1..Len(c) :
        /\ c[p] = prog
        /\ \A q \in 1..p : c[q] \notin Range(args)
        /\ Len(c) - p >= Len(args)
        /\ SubSeq(c, Len(c) - Len(args) + 1, Len(c)) = args

\* The run command of a native adapter is the one in cmd.
NativeRun == pc \in {"spawn", "run"} /\ name \in NativeAdapters

\* C9 as stated: the run command of every native adapter names the
\* artifact itself, with the record's args after it.
C9_ArtifactThenArgs ==
    NativeRun => ArgsFollow(cmd, abspath(filepath), RecordArgs(config))

\* The guest program an adapter runs: the artifact, or for wasmedge the
\* object compiled from it.
GuestProgram(n, path) == IF n = "wasmedge" THEN soPath(path) ELSE path

\* C9, amended: the run command of every native adapter names the artifact
\* (for wasmedge, the .so object compiled from it) as the guest program,
\* with the record's args after it, in order, and none of them before it.
C9_GuestProgramThenArgs ==
    NativeRun =>
        ArgsFollow(cmd, GuestProgram(name, abspath(filepath)),
                   RecordArgs(config))

C9_Witness ==
    /\ pc = "run"
    /\ name = "wasmedge"
    /\ Len(RecordArgs(config)) = 2

\* The declared order of the adapters.
DeclaredOrder == <<"deno", "node", "wasmer", "wasmtime", "wasmedge">>

Position(n) == CHOOSE k \in 1..Len(DeclaredOrder) : DeclaredOrder[k] = n

\* The cells started so far: those recorded, then the one in progress.
Started ==
    report \o (IF InCell THEN <<Cell(filepath, name)>> ELSE <<>>)

\* C10: cells are started in lexicographic order of the artifact paths and,
\* within an artifact, in the declared order of the adapters; and when a
\* cell is started, every cell of every discovered artifact that sorts
\* before its artifact has been recorded.
C10_StableOrder ==
    /\ \A p, q \in 1..Len(Started) :
         p < q =>
            \/ LexLess(Started[p].artifact, Started[q].artifact)
            \/ /\ Started[p].artifact = Started[q].artifact
               /\ Position(Started[p].name) < Position(Started[q].name)
    /\ \A q \in 1..Len(Started) :
         \A a \in Range(inputs) :
            LexLess(a, Started[q].artifact) =>
               \A n \in Range(DeclaredOrder) :
                  \E p \in 1..Len(report) : p < q /\ report[p] = Cell(a, n)

C10_Witness ==
    /\ pc = "run"
    /\ Len(inputs) = 2
    /\ i = 2
    /\ name = "wasmedge"
    /\ Len(report) = 9

=============================================================================
